---------------------------- MODULE Spec2Model ----------------------------
(***************************************************************************)
(* waterz agglomeration front end (frontend_agglomerate.h / .cpp):         *)
(* the context registry, initialize, mergeUntil with its merge-history     *)
(* visitor and UnmergeTracker, getRegionGraph and free.  The merge engine  *)
(* the front end drives                                                    *)
(* (backend/IterativeRegionMerging.hpp, the region graph, the statistics   *)
(* provider and the queue) is modelled from the design document, 4.1-4.5.  *)
(***************************************************************************)
EXTENDS Integers, Sequences, FiniteSets, TLC

(***************************************************************************)
(* Bounds of the model.                                                    *)
(***************************************************************************)
NumNodes == 3     \* seed ids are 1..NumNodes (id 0 is background)
MaxAff   == 1     \* affinities are quantised to 0..MaxAff
MaxCalls == 2     \* mergeUntil calls made on the handle
MaxContexts == 2  \* contexts created when the registry is exercised

Nodes      == 1 .. NumNodes
Affinities == 0 .. MaxAff
Thresholds == 0 .. MaxAff

\* A pointer is <<>> (NULL) or <<object>>.
NULL == << >>

(***************************************************************************)
(* std::unordered_map helpers: a map is a function on the keys it holds.   *)
(***************************************************************************)
EmptyMap == [k \in {} |-> << >>]

\* operator[] for writing: creates the key when it is missing.
MapPut(m, k, v) == [x \in (DOMAIN m) \cup {k} |-> IF x = k THEN v ELSE m[x]]

\* operator[] for reading a vector entry, default-constructed when missing.
MapAt(m, k) == IF k \in DOMAIN m THEN m[k] ELSE << >>

SeqRange(s) == {s[i] : i \in 1 .. Len(s)}

(***************************************************************************)
(* UnmergeTracker                                                          *)
(***************************************************************************)

\* h:152-155: push groupid onto the group list of every segid of the group.
RECURSIVE PushGroupId(_, _, _, _)
PushGroupId(s2g, segid_list, i, groupid) ==
    IF i > Len(segid_list) THEN s2g
    ELSE PushGroupId(MapPut(s2g, segid_list[i],
                            Append(MapAt(s2g, segid_list[i]), groupid)),
                     segid_list, i + 1, groupid)

\* h:143-157: the coherent groups of one tuple; acc = [s2g, mutex].
RECURSIVE ScanTuple(_, _, _)
ScanTuple(acc, anti_group_list_tuple, i) ==
    IF i > Len(anti_group_list_tuple) THEN acc
    ELSE LET segid_list == anti_group_list_tuple[i]
             groupid    == segid_list[1]
         IN  ScanTuple([s2g   |-> PushGroupId(acc.s2g, segid_list, 1, groupid),
                        mutex |-> Append(acc.mutex, groupid)],
                       anti_group_list_tuple, i + 1)

\* A slip of h:162-165: the group id itself is not left out of `others`.
RECURSIVE UpdateAnti_KeepSelf(_, _, _)
UpdateAnti_KeepSelf(g2a, mutex_group_id_list, i) ==
    IF i > Len(mutex_group_id_list) THEN g2a
    ELSE LET groupid == mutex_group_id_list[i]
         IN  UpdateAnti_KeepSelf(
                 MapPut(g2a, groupid, MapAt(g2a, groupid) \o mutex_group_id_list),
                 mutex_group_id_list, i + 1)

\* h:160-170: every group id of the tuple gets the other ids appended.
RECURSIVE UpdateAnti(_, _, _)
UpdateAnti(g2a, mutex_group_id_list, i) ==
    IF i > Len(mutex_group_id_list) THEN g2a
    ELSE LET groupid   == mutex_group_id_list[i]
             IsOther(other) == other # groupid
             others    == SelectSeq(mutex_group_id_list, IsOther)
         IN  UpdateAnti(MapPut(g2a, groupid, MapAt(g2a, groupid) \o others),
                        mutex_group_id_list, i + 1)

\* h:140-171: the loop over the tuples of the input list.
RECURSIVE ScanInput(_, _, _)
ScanInput(t, input_list, i) ==
    IF i > Len(input_list) THEN t
    ELSE LET acc == ScanTuple([s2g |-> t.segid_to_groupid_list, mutex |-> << >>],
                              input_list[i], 1)
         IN  ScanInput([segid_to_groupid_list |-> acc.s2g,
                        groupid_to_anti_list  |->
                            UpdateAnti(t.groupid_to_anti_list, acc.mutex, 1),
                        is_empty              |-> FALSE],
                       input_list, i + 1)

\* h:127-173: the constructor.
UnmergeTracker(input_list) ==
    IF Len(input_list) = 0
    THEN [segid_to_groupid_list |-> EmptyMap,
          groupid_to_anti_list  |-> EmptyMap,
          is_empty              |-> TRUE]
    ELSE ScanInput([segid_to_groupid_list |-> EmptyMap,
                    groupid_to_anti_list  |-> EmptyMap,
                    is_empty              |-> FALSE],
                   input_list, 1)

\* h:242-246: *ret is overwritten only when the map holds segid.
getGroupIDs(t, segid, ret) ==
    IF segid \in DOMAIN t.segid_to_groupid_list
    THEN t.segid_to_groupid_list[segid] ELSE ret

\* h:248-252: *ret is overwritten only when the map holds the group id.
getAntiGroupIDs(t, segid, ret) ==
    IF segid \in DOMAIN t.groupid_to_anti_list
    THEN t.groupid_to_anti_list[segid] ELSE ret

\* std::unordered_map::operator[] as the maps see it: the key is created,
\* with an empty vector, when it is missing.
MapIndex(m, k) == IF k \in DOMAIN m THEN m ELSE MapPut(m, k, << >>)

\* A slip of h:243: operator[] is reached without the count() test.
getGroupIDs_Map_NoCount(t, segid) == MapIndex(t.segid_to_groupid_list, segid)

\* h:242-246: _segid_to_groupid_list after getGroupIDs(segid, ret)
getGroupIDs_Map(t, segid) ==
    IF segid \in DOMAIN t.segid_to_groupid_list
    THEN MapIndex(t.segid_to_groupid_list, segid)
    ELSE t.segid_to_groupid_list

\* h:248-252: _groupid_to_anti_list after getAntiGroupIDs(segid, ret)
getAntiGroupIDs_Map(t, segid) ==
    IF segid \in DOMAIN t.groupid_to_anti_list
    THEN MapIndex(t.groupid_to_anti_list, segid)
    ELSE t.groupid_to_anti_list

\* h:197-211: the loop over groups_a; anti_groups_a is declared outside the
\* loop, so it carries its previous value into the next iteration.
RECURSIVE ScanGroupsA(_, _, _, _, _)
ScanGroupsA(t, groups_a, groups_b, i, anti_prev) ==
    IF i > Len(groups_a) THEN TRUE
    ELSE LET anti_groups_a == getAntiGroupIDs(t, groups_a[i], anti_prev)
         IN  IF \E j \in 1 .. Len(groups_b), k \in 1 .. Len(anti_groups_a) :
                    anti_groups_a[k] = groups_b[j]
             THEN FALSE
             ELSE ScanGroupsA(t, groups_a, groups_b, i + 1, anti_groups_a)

\* A slip of the loop: only the first group of a is examined.
UnmergeTracker_isValidMerge_FirstGroupOnly(t, a, b) ==
    IF t.is_empty THEN TRUE
    ELSE LET groups_a == getGroupIDs(t, a, << >>)
             groups_b == getGroupIDs(t, b, << >>)
         IN  ScanGroupsA(t, IF Len(groups_a) = 0 THEN << >>
                                ELSE << groups_a[1] >>,
                         groups_b, 1, << >>)

\* h:175-214
UnmergeTracker_isValidMerge(t, a, b) ==
    IF t.is_empty THEN TRUE
    ELSE LET groups_a == getGroupIDs(t, a, << >>)
             groups_b == getGroupIDs(t, b, << >>)
         IN  ScanGroupsA(t, groups_a, groups_b, 1, << >>)

\* h:197-213: the tracker after the loop over groups_a, which ends at the
\* first group that refuses.
RECURSIVE ScanGroupsA_After(_, _, _, _, _)
ScanGroupsA_After(t, groups_a, groups_b, i, anti_prev) ==
    IF i > Len(groups_a) THEN t
    ELSE LET anti_groups_a == getAntiGroupIDs(t, groups_a[i], anti_prev)
             t1 == [t EXCEPT !.groupid_to_anti_list =
                                getAntiGroupIDs_Map(t, groups_a[i])]
         IN  IF \E j \in 1 .. Len(groups_b), k \in 1 .. Len(anti_groups_a) :
                    anti_groups_a[k] = groups_b[j]
             THEN t1
             ELSE ScanGroupsA_After(t1, groups_a, groups_b, i + 1, anti_groups_a)

\* h:175-214: the tracker after isValidMerge(a, b)
UnmergeTracker_isValidMerge_After(t, a, b) ==
    IF t.is_empty THEN t
    ELSE LET groups_a == getGroupIDs(t, a, << >>)
             groups_b == getGroupIDs(t, b, << >>)
             t1 == [t  EXCEPT !.segid_to_groupid_list = getGroupIDs_Map(t, a)]
             t2 == [t1 EXCEPT !.segid_to_groupid_list = getGroupIDs_Map(t1, b)]
         IN  ScanGroupsA_After(t2, groups_a, groups_b, 1, << >>)

\* A slip of onMerge: the survivor keeps only the groups of a.
UnmergeTracker_onMerge_DropB(t, a, b, c) ==
    IF t.is_empty THEN t
    ELSE LET groups_a == getGroupIDs(t, a, << >>)
         IN  IF Len(groups_a) > 0
             THEN [t EXCEPT !.segid_to_groupid_list = MapPut(@, c, groups_a)]
             ELSE t

\* A slip of onMerge: the survivor keeps only the groups of b.
UnmergeTracker_onMerge_DropA(t, a, b, c) ==
    IF t.is_empty THEN t
    ELSE LET groups_b == getGroupIDs(t, b, << >>)
         IN  IF Len(groups_b) > 0
             THEN [t EXCEPT !.segid_to_groupid_list = MapPut(@, c, groups_b)]
             ELSE t

\* h:216-234
UnmergeTracker_onMerge(t, a, b, c) ==
    IF t.is_empty THEN t
    ELSE LET groups_a == getGroupIDs(t, a, << >>)
             groups_b == getGroupIDs(t, b, << >>)
             joined   == groups_a \o groups_b
         IN  IF Len(joined) > 0
             THEN [t EXCEPT !.segid_to_groupid_list = MapPut(@, c, joined)]
             ELSE t

(***************************************************************************)
(* Visitors (frontend_agglomerate.h).  A visitor is the record             *)
(* [history, unmergeTracker]: the vector MergeHistoryVisitor refers to and *)
(* the tracker pointer of its RegionMergingVisitor base.                   *)
(***************************************************************************)

\* h:266-269
RegionMergingVisitor_onMerge(tracker, a, b, c, score) ==
    IF tracker # NULL
    THEN << UnmergeTracker_onMerge(tracker[1], a, b, c) >>
    ELSE tracker

\* A slip of the default: without a tracker every merge is refused.
RegionMergingVisitor_isValidMerge_DefaultFalse(tracker, a, b) ==
    IF tracker # NULL
    THEN UnmergeTracker_isValidMerge(tracker[1], a, b)
    ELSE FALSE

\* h:271-275
RegionMergingVisitor_isValidMerge(tracker, a, b) ==
    IF tracker # NULL
    THEN UnmergeTracker_isValidMerge(tracker[1], a, b)
    ELSE TRUE

\* A slip of the initialiser list: the stale score of the queue entry's
\* slot is lost and the survivor is stored in the score field's place.
MergeHistoryVisitor_onMerge_NoScore(visitor, a, b, c, score) ==
    [history        |-> Append(visitor.history,
                               [a |-> a, b |-> b, c |-> c, score |-> c]),
     unmergeTracker |-> RegionMergingVisitor_onMerge(visitor.unmergeTracker,
                                                     a, b, c, score)]

\* h:292-296
MergeHistoryVisitor_onMerge(visitor, a, b, c, score) ==
    [history        |-> Append(visitor.history,
                               [a |-> a, b |-> b, c |-> c, score |-> score]),
     unmergeTracker |-> RegionMergingVisitor_onMerge(visitor.unmergeTracker,
                                                     a, b, c, score)]

(***************************************************************************)
(* The merge engine, from the design document.                             *)
(*   regionGraph   = [edges: edge id -> [u, v, stat], deleted: edge ids]   *)
(*   regionMerging = [parent: node -> node, queue: {<<score, edge id>>}]   *)
(***************************************************************************)
Providers == {"MaxAffinity", "VectorQuantile"}

Min(x, y) == IF x <= y THEN x ELSE y
Max(x, y) == IF x >= y THEN x ELSE y

\* 4.2 init_from_affinities, one contributing affinity.  A statistic is a
\* sequence: the maximum alone, or the sorted contributions of the quantile.
InitStatistic(provider, aff) == << aff >>

\* the multiset of a vector-backed quantile is kept sorted
RECURSIVE SortedMerge(_, _)
SortedMerge(s, t) ==
    IF Len(s) = 0 THEN t
    ELSE IF Len(t) = 0 THEN s
    ELSE IF s[1] <= t[1] THEN << s[1] >> \o SortedMerge(Tail(s), t)
    ELSE << t[1] >> \o SortedMerge(s, Tail(t))

\* 4.2 combine(dst_edge, src_edge)
Combine(provider, dst, src) ==
    IF provider = "MaxAffinity" THEN << Max(dst[1], src[1]) >>
    ELSE SortedMerge(dst, src)

\* 4.2 value: the maximum, or the median order statistic
StatisticValue(provider, stat) ==
    IF provider = "MaxAffinity" THEN stat[1] ELSE stat[(Len(stat) + 1) \div 2]

\* 4.3 score = 1 - statistic: merges happen in ascending score order
ScoringFunction(provider, stat) == MaxAff - StatisticValue(provider, stat)

LiveEdges(g) == (DOMAIN g.edges) \ g.deleted

Incident(g, n) == {e \in LiveEdges(g) : n \in {g.edges[e].u, g.edges[e].v}}

OtherEnd(g, e, n) == IF g.edges[e].u = n THEN g.edges[e].v ELSE g.edges[e].u

Between(g, x, y) ==
    {e \in LiveEdges(g) : {g.edges[e].u, g.edges[e].v} = {x, y}}

CurrentScore(g, provider, e) == ScoringFunction(provider, g.edges[e].stat)

\* 4.1 resolve
RECURSIVE findRoot(_, _)
findRoot(parent, n) == IF parent[n] = n THEN n ELSE findRoot(parent, parent[n])

\* The survivor rule broken: the larger id survives.
Survivor_Larger(u, v) == Max(u, v)

\* 4.1 / 9: the smaller id survives
Survivor(u, v) == Min(u, v)

\* 4.1 merge_nodes, the reassignment of the loser's incidence.  moved are
\* the loser's edges, other[e] the far end of a moved edge e, twin[e] the
\* edges that already join that end to the survivor, dropped the self-loops
\* and the duplicates.
Absorbed(g, provider, survivor, moved, other, twin, dropped) ==
    LET srcOf(f) == {e \in moved : other[e] # survivor /\ f \in twin[e]}
    IN  [edges   |->
            [x \in DOMAIN g.edges |->
                IF x \in moved \ dropped
                THEN [u    |-> Min(survivor, other[x]),
                      v    |-> Max(survivor, other[x]),
                      stat |-> g.edges[x].stat]
                ELSE IF srcOf(x) # {}
                THEN [g.edges[x] EXCEPT
                        !.stat = Combine(provider, @,
                                   g.edges[CHOOSE e \in srcOf(x) : TRUE].stat)]
                ELSE g.edges[x]],
         deleted |-> g.deleted \cup dropped]

\* 4.1 merge_nodes: the self-loops and the duplicates are marked deleted
Absorbing(g, provider, survivor, moved, other, twin) ==
    CHOOSE out \in
        {Absorbed(g, provider, survivor, moved, other, twin, dropped) :
            dropped \in {{e \in moved : other[e] = survivor \/ twin[e] # {}}}}
        : TRUE

\* 4.1 merge_nodes: the region graph after loser is absorbed by survivor
merge_nodes(g, provider, survivor, loser) ==
    CHOOSE out \in
        {Absorbing(g, provider, survivor, moved, other, twin) :
            moved \in {Incident(g, loser)},
            other \in {[e \in Incident(g, loser) |-> OtherEnd(g, e, loser)]},
            twin  \in {[e \in Incident(g, loser) |->
                          Between(g, survivor, OtherEnd(g, e, loser))]}} : TRUE

\* The tie-break broken: among the best scores the largest edge id wins.
Best_LastOnTies(queue) ==
    CHOOSE q \in queue :
        \A r \in queue : q[1] < r[1] \/ (q[1] = r[1] /\ q[2] >= r[2])

\* 4.4: the best entry, score ties broken by edge id
Best(queue) ==
    CHOOSE q \in queue :
        \A r \in queue : q[1] < r[1] \/ (q[1] = r[1] /\ q[2] <= r[2])

\* Step 4 broken: the popped snapshot is pushed back instead of the
\* current score.
FreshEntry_Snapshot(snapshot, current, e) == << snapshot, e >>

\* 4.5 step 4: the entry pushed for a stale edge
FreshEntry(snapshot, current, e) == << current, e >>

\* 4.5 steps 8-9: the state after survivor absorbed loser, g2 being the
\* region graph merge_nodes returned.
\* r = [regionGraph, regionMerging, provider, visitor, merged, returned]
Merged(r, queue, u, v, survivor, loser, score, g2) ==
    LET improved == {f \in Incident(g2, survivor) :
                       CurrentScore(g2, r.provider, f)
                         < CurrentScore(r.regionGraph, r.provider, f)}
    IN  [r EXCEPT
           !.regionGraph   = g2,
           !.regionMerging =
               [parent |-> [r.regionMerging.parent EXCEPT ![loser] = survivor],
                queue  |-> queue \cup
                           {<< CurrentScore(g2, r.provider, f), f >> :
                               f \in improved}],
           !.visitor       = MergeHistoryVisitor_onMerge(r.visitor, u, v,
                                                         survivor, score),
           !.merged        = @ + 1]

\* 4.5 steps 6-9, u and v being the roots of the ends of e
Resolved(r, e, queue, u, v, score) ==
    LET g  == r.regionGraph
        dropEdge == [g EXCEPT !.deleted = @ \cup {e}]
    IN  IF u = v
        THEN [r EXCEPT !.regionGraph = dropEdge, !.regionMerging.queue = queue]
        ELSE IF ~ RegionMergingVisitor_isValidMerge(r.visitor.unmergeTracker, u, v)
        THEN [r EXCEPT !.regionGraph = dropEdge, !.regionMerging.queue = queue]
        ELSE
          CHOOSE out \in
              {Merged(r, queue, u, v, survivor,
                      IF survivor = u THEN v ELSE u, score,
                      merge_nodes(g, r.provider, survivor,
                                  IF survivor = u THEN v ELSE u)) :
                  survivor \in {Survivor(u, v)}} : TRUE

\* 4.5 step 6, for a live, current edge e within the threshold
MergeStep(r, e, queue, score) ==
    CHOOSE out \in
        {Resolved(r, e, queue, u, v, score) :
            u \in {findRoot(r.regionMerging.parent, r.regionGraph.edges[e].u)},
            v \in {findRoot(r.regionMerging.parent, r.regionGraph.edges[e].v)}}
        : TRUE

\* 4.5 steps 3-5, for the popped entry <<snapshot, e>>
Compared(r, threshold, snapshot, e, rest, current) ==
    IF e \in r.regionGraph.deleted
    THEN [r EXCEPT !.regionMerging.queue = rest]
    ELSE IF current # snapshot
    THEN [r EXCEPT !.regionMerging.queue =
                      rest \cup {FreshEntry(snapshot, current, e)}]
    ELSE IF current > threshold
    THEN [r EXCEPT !.returned = TRUE]
    ELSE MergeStep(r, e, rest, current)

\* 4.5 step 2: top is popped and the current score of its edge is read
Popped(r, threshold, top) ==
    CHOOSE out \in
        {Compared(r, threshold, top[1], top[2], rest, current) :
            rest \in {r.regionMerging.queue \ {top}},
            current \in {CurrentScore(r.regionGraph, r.provider, top[2])}}
        : TRUE

\* 4.5: one iteration of the loop of merge_until(threshold, visitor)
Iteration(r, threshold) ==
    IF r.regionMerging.queue = {}
    THEN [r EXCEPT !.returned = TRUE]
    ELSE CHOOSE out \in {Popped(r, threshold, top) :
                            top \in {Best(r.regionMerging.queue)}} : TRUE

\* 4.5: merge_until run to its return
RECURSIVE RunMergeUntil(_, _)
RunMergeUntil(r, threshold) ==
    IF r.returned THEN r ELSE RunMergeUntil(Iteration(r, threshold), threshold)

\* A slip of the extraction: a label is remapped to its parent only.
extractSegmentation_OneHop(parent, segmentation) ==
    [n \in DOMAIN segmentation |-> parent[segmentation[n]]]

\* 4.5 segmentation extraction: every label is remapped to its live root
extractSegmentation(parent, segmentation) ==
    [n \in DOMAIN segmentation |-> findRoot(parent, segmentation[n])]

(***************************************************************************)
(* Inputs.  The region graph is what watershed and get_region_graph hand   *)
(* to the engine: edges between seeds that touch, one affinity each.  The  *)
(* edge slots form a ring over the seeds (every graph on three seeds).     *)
(***************************************************************************)
EdgeSlots ==
    [i \in 1 .. NumNodes |->
        IF i < NumNodes THEN << i, i + 1 >> ELSE << 1, NumNodes >>]

\* Unmerge lists: tuples of coherent groups, the groups of a tuple disjoint.
NodePairs == {q \in Nodes \X Nodes : q[1] < q[2]}

PairTuple(q) == << << q[1] >>, << q[2] >> >>

PairTuples == {PairTuple(q) : q \in NodePairs}

GroupTuples ==
    {<< << p[1], p[2] >>, << p[3] >> >> :
        p \in {q \in Nodes \X Nodes \X Nodes :
                  q[1] < q[2] /\ q[1] # q[3] /\ q[2] # q[3]}}

TripleTuples ==
    {<< << p[1] >>, << p[2] >>, << p[3] >> >> :
        p \in {q \in Nodes \X Nodes \X Nodes : q[1] < q[2] /\ q[2] < q[3]}}

UnmergeLists ==
    {<< >>}
      \cup {<< t >> : t \in PairTuples \cup GroupTuples \cup TripleTuples}
      \cup {<< << << p[1] >> >>, PairTuple(p[2]) >> :
              p \in {x \in Nodes \X NodePairs :
                        x[2][1] # x[1] /\ x[2][2] # x[1]}}
      \cup {<< PairTuple(p[1]), PairTuple(p[2]) >> :
              p \in {q \in NodePairs \X NodePairs :
                        \/ q[1][1] < q[2][1]
                        \/ q[1][1] = q[2][1] /\ q[1][2] < q[2][2]}}

(***************************************************************************)
(* State                                                                   *)
(***************************************************************************)
VARIABLES
    contexts,        \* WaterzContext::_contexts: id -> context
    nextId,          \* WaterzContext::_nextId
    state,           \* the caller's WaterzState.context: NULL or <<id>>
    pc,              \* "idle", "initializing", "merging", "merged", "crashed"
    threshold,       \* mergeUntil's threshold
    mergeHistory,    \* mergeUntil's local vector
    unmergeTracker,  \* the tracker mergeUntil allocated: NULL or <<tracker>>
    merged,          \* the engine's merge counter of the call
    initArg,         \* <<p>> inside initialize, p its unmergeList pointer
    initial,         \* <<>>, or <<context>> as initialize built it
    calls            \* the [threshold, history] of every returned mergeUntil

vars == << contexts, nextId, state, pc, threshold, mergeHistory,
           unmergeTracker, merged, initArg, initial, calls >>


CallsDone == Len(calls)

\* h:79-85
get(id) == IF id \in DOMAIN contexts THEN << contexts[id] >> ELSE NULL

Init ==
    /\ contexts = EmptyMap
    /\ nextId = 0
    /\ state = NULL
    /\ pc = "idle"
    /\ threshold = 0
    /\ mergeHistory = << >>
    /\ unmergeTracker = NULL
    /\ merged = 0
    /\ initArg = << >>
    /\ initial = << >>
    /\ calls = << >>

\* cpp:61-63, 69-74: the region graph with its initial statistics
NewRegionGraph(present, aff, provider) ==
    [edges   |-> [e \in present |->
                    [u    |-> EdgeSlots[e][1],
                     v    |-> EdgeSlots[e][2],
                     stat |-> InitStatistic(provider, aff[e])]],
     deleted |-> {}]

\* cpp:80-82: the engine over the graph, its queue seeded with every edge
NewRegionMerging(g, provider) ==
    [parent |-> [n \in Nodes |-> n],
     queue  |-> {<< CurrentScore(g, provider, e), e >> : e \in DOMAIN g.edges}]

\* A slip of h:72: the id is not taken from _nextId.
NewContext_IdZero(id, present, aff, provider, list) ==
    LET g == NewRegionGraph(present, aff, provider)
    IN  [id                 |-> 0,
         regionGraph        |-> g,
         regionMerging      |-> NewRegionMerging(g, provider),
         statisticsProvider |-> provider,
         segmentation       |-> [n \in Nodes |-> n],
         unmergeList        |-> list]

\* h:69-77 and cpp:84-107: the context initialize registers
NewContext(id, present, aff, provider, list) ==
    LET g == NewRegionGraph(present, aff, provider)
    IN  [id                 |-> id,
         regionGraph        |-> g,
         regionMerging      |-> NewRegionMerging(g, provider),
         statisticsProvider |-> provider,
         segmentation       |-> [n \in Nodes |-> n],
         unmergeList        |-> list]

\* cpp:16-27: initialize is entered; unmergeList is a pointer, NULL when the
\* caller leaves it out (h:313).
initialize_Enter(lists) ==
    /\ pc = "idle"
    /\ state = NULL
    /\ \E unmergeList \in {NULL} \cup {<< l >> : l \in lists} :
          initArg' = << unmergeList >>
    /\ pc' = "initializing"
    /\ UNCHANGED << contexts, nextId, state, threshold, mergeHistory,
                    unmergeTracker, merged, initial, calls >>

initialize_Call == initialize_Enter(UnmergeLists)

\* cpp:29-109: the body.  cpp:107 dereferences unmergeList without a test,
\* so a NULL argument is undefined behaviour: the call crashes, or the
\* context holds whatever list the read produced.
initialize_Body(slots, providers, lists) ==
    /\ pc = "initializing"
    /\ \E present \in SUBSET slots, provider \in providers :
        \E aff \in [present -> Affinities] :
          \/ /\ \E list \in IF initArg[1] = NULL THEN lists
                                                 ELSE {initArg[1][1]} :
                  LET context == NewContext(nextId, present, aff, provider, list)
                  IN  /\ contexts' = MapPut(contexts, nextId, context)
                      /\ initial' = << context >>
             /\ nextId' = nextId + 1
             /\ state' = << nextId >>
             /\ initArg' = << >>
             /\ pc' = "idle"
          \/ /\ initArg[1] = NULL
             /\ pc' = "crashed"
             /\ UNCHANGED << contexts, nextId, state, initial, initArg >>
    /\ UNCHANGED << threshold, mergeHistory, unmergeTracker, merged, calls >>

initialize == initialize_Body(1 .. NumNodes, Providers, UnmergeLists)

\* A slip of cpp:121: the vector outlives the call and is never cleared.
NewMergeHistory_Kept(previous) == previous

\* cpp:121: the history vector is a fresh local of every call
NewMergeHistory(previous) == << >>

\* cpp:124-127: a tracker is built, and attached, only for a non-empty list
NewUnmergeTracker(context) ==
    IF Len(context.unmergeList) > 0
    THEN << UnmergeTracker(context.unmergeList) >>
    ELSE NULL

\* The engine's view of the call in progress.
RunState(context) ==
    [regionGraph   |-> context.regionGraph,
     regionMerging |-> context.regionMerging,
     provider      |-> context.statisticsProvider,
     visitor       |-> [history |-> mergeHistory,
                        unmergeTracker |-> unmergeTracker],
     merged        |-> merged,
     returned      |-> FALSE]

\* cpp:112-133: mergeUntil up to the call into the engine.  The caller
\* resumes a handle with a larger threshold than the call before.
mergeUntil_Call ==
    /\ pc = "idle"
    /\ state # NULL
    /\ get(state[1]) # NULL
    /\ CallsDone < MaxCalls
    /\ \E t \in Thresholds :
          /\ CallsDone > 0 => t > calls[CallsDone].threshold
          /\ threshold' = t
    /\ mergeHistory' = NewMergeHistory(mergeHistory)
    /\ unmergeTracker' = NewUnmergeTracker(get(state[1])[1])
    /\ merged' = 0
    /\ pc' = "merging"
    /\ UNCHANGED << contexts, nextId, state, initArg, initial, calls >>

\* cpp:129-133: one iteration of the engine's loop
mergeUntil_Loop ==
    /\ pc = "merging"
    /\ \E r0 \in {RunState(contexts[state[1]])} :
         \E r \in {Iteration(r0, threshold)} :
           /\ contexts' = [contexts EXCEPT ![state[1]] =
                             [@ EXCEPT !.regionGraph   = r.regionGraph,
                                       !.regionMerging = r.regionMerging]]
           /\ mergeHistory' = r.visitor.history
           /\ unmergeTracker' = r.visitor.unmergeTracker
           /\ merged' = r.merged
           /\ pc' = IF r.returned THEN "merged" ELSE "merging"
    /\ UNCHANGED << nextId, state, threshold, initArg, initial, calls >>

\* cpp:135-156: the segmentation is extracted when something merged, and
\* the history is returned
mergeUntil_Return ==
    /\ pc = "merged"
    /\ LET context == contexts[state[1]]
       IN  contexts' = [contexts EXCEPT ![state[1]] =
              IF merged > 0
              THEN [context EXCEPT !.segmentation =
                      extractSegmentation(context.regionMerging.parent, @)]
              ELSE context]
    /\ calls' = Append(calls, [threshold |-> threshold, history |-> mergeHistory])
    /\ pc' = "idle"
    /\ UNCHANGED << nextId, state, threshold, mergeHistory, unmergeTracker,
                    merged, initArg, initial >>

(***************************************************************************)
(* The rest of the interface: free, getRegionGraph, and mergeUntil on a    *)
(* handle the registry does not hold.                                      *)
(***************************************************************************)

\* A slip of h:93: the whole registry is cleared.
WaterzContext_free_All(registry, id) ==
    IF id \in DOMAIN registry THEN EmptyMap ELSE registry

\* h:87-96: the registry after WaterzContext::free(id)
WaterzContext_free(registry, id) ==
    IF id \in DOMAIN registry
    THEN [k \in (DOMAIN registry) \ {id} |-> registry[k]]
    ELSE registry

\* cpp:169-173.  The caller's WaterzState keeps its id.
free ==
    /\ pc = "idle"
    /\ state # NULL
    /\ contexts' = WaterzContext_free(contexts, state[1])
    /\ UNCHANGED << nextId, state, pc, threshold, mergeHistory,
                    unmergeTracker, merged, initArg, initial, calls >>

\* cpp:117-124 when WaterzContext::get returns NULL: context->unmergeList is
\* read through the NULL pointer, which is undefined behaviour: the call
\* crashes, or it comes back with whatever the read produced.
mergeUntil_NoContext ==
    /\ pc = "idle"
    /\ state # NULL
    /\ get(state[1]) = NULL
    /\ \/ pc' = "crashed"
       \/ pc' = pc
    /\ UNCHANGED << contexts, nextId, state, threshold, mergeHistory,
                    unmergeTracker, merged, initArg, initial, calls >>

\* cpp:159-167: the region graph is read off the context and returned; the
\* pointer get returns is used without a test, as in mergeUntil.
getRegionGraph ==
    /\ pc = "idle"
    /\ state # NULL
    /\ IF get(state[1]) = NULL
       THEN \/ pc' = "crashed"
            \/ pc' = pc
       ELSE pc' = pc
    /\ UNCHANGED << contexts, nextId, state, threshold, mergeHistory,
                    unmergeTracker, merged, initArg, initial, calls >>

\* h:57-62: the caller takes up the WaterzState it passes to its next call:
\* none, one it was given, or one holding an id that was never given out.
WaterzState_Pick ==
    /\ pc = "idle"
    /\ state' \in {NULL} \cup {<< id >> : id \in 0 .. nextId}
    /\ UNCHANGED << contexts, nextId, pc, threshold, mergeHistory,
                    unmergeTracker, merged, initArg, initial, calls >>

Next ==
    \/ initialize_Call
    \/ initialize
    \/ mergeUntil_Call \/ mergeUntil_Loop \/ mergeUntil_Return

Spec == Init /\ [][Next]_vars

\* The loop and the return are straight-line code of one thread: a call
\* that is under way keeps running.
FairSpec == Spec /\ WF_vars(mergeUntil_Loop \/ mergeUntil_Return)

\* The inputs given to initialize when the registry is exercised: one edge
\* slot, one provider, no list or one pair.
RegistryLists == {<< >>, << PairTuple(<< 1, 2 >>) >>}

\* Every operation of the interface, on up to MaxContexts contexts.
RegistryNext ==
    \/ nextId < MaxContexts /\ initialize_Enter(RegistryLists)
    \/ initialize_Body({1}, {"MaxAffinity"}, RegistryLists)
    \/ mergeUntil_Call \/ mergeUntil_Loop \/ mergeUntil_Return
    \/ mergeUntil_NoContext
    \/ getRegionGraph
    \/ free
    \/ WaterzState_Pick

RegistrySpec == Init /\ [][RegistryNext]_vars

(***************************************************************************)
(* Properties                                                              *)
(***************************************************************************)
HasContext == state # NULL /\ get(state[1]) # NULL

Ctx == contexts[state[1]]

RootOf(n) == findRoot(Ctx.regionMerging.parent, n)

Last(s) == s[Len(s)]

\* A direct run: one mergeUntil(t) on a handle initialised as `context`.
DirectRun(context, t) ==
    LET r == RunMergeUntil(
                 [regionGraph   |-> context.regionGraph,
                  regionMerging |-> context.regionMerging,
                  provider      |-> context.statisticsProvider,
                  visitor       |-> [history |-> NewMergeHistory(<< >>),
                                     unmergeTracker |-> NewUnmergeTracker(context)],
                  merged        |-> 0,
                  returned      |-> FALSE], t)
    IN  [history      |-> r.visitor.history,
         segmentation |-> IF r.merged > 0
                          THEN extractSegmentation(r.regionMerging.parent,
                                                   context.segmentation)
                          ELSE context.segmentation]

\* Seeds of different coherent groups of one tuple of L have different roots.
Separated(L) ==
    \A i \in 1 .. Len(L) :
        \A j, k \in 1 .. Len(L[i]) :
            j # k =>
                \A s \in SeqRange(L[i][j]), s2 \in SeqRange(L[i][k]) :
                    RootOf(s) # RootOf(s2)

\* The thresholds of the calls made so far increase strictly.
Increasing(cs) ==
    \A i, j \in 1 .. Len(cs) : i < j => cs[i].threshold < cs[j].threshold

\* C1: after a run of one or several mergeUntil calls on a handle
\* initialised with L, no two seeds of different coherent groups of one
\* tuple of L resolve to the same live root.
C1_NoConstraintViolation ==
    (pc = "idle" /\ HasContext /\ CallsDone >= 1 /\ Increasing(calls)) =>
        Separated(Ctx.unmergeList)

\* C2: mergeUntil(t1) then mergeUntil(t2), t1 < t2, gives the segmentation
\* and the concatenated history of a single mergeUntil(t2) on an identically
\* initialised handle.
C2_ResumeEqualsDirect ==
    (pc = "idle" /\ HasContext /\ CallsDone = 2
        /\ calls[1].threshold < calls[2].threshold) =>
        LET direct == DirectRun(initial[1], calls[2].threshold)
        IN  /\ calls[1].history \o calls[2].history = direct.history
            /\ Ctx.segmentation = direct.segmentation

\* C3: every merge appended to the history has a score <= threshold, and
\* that score is the current score of the merged edge at that instant.
C3_QueueSoundness ==
    [][Len(mergeHistory') = Len(mergeHistory) + 1 =>
          LET m == Last(mergeHistory')
              g == Ctx.regionGraph
          IN  /\ m.score <= threshold
              /\ \E e \in Between(g, m.a, m.b) :
                    m.score = CurrentScore(g, Ctx.statisticsProvider, e)]_vars

\* A merge was made at a score that differs from the score the edge
\* between the two regions had when the queue was seeded.
C3_Witness ==
    /\ pc = "merging" /\ Len(mergeHistory) >= 1
    /\ LET m == Last(mergeHistory)
           g == initial[1].regionGraph
       IN  \E e \in Between(g, m.a, m.b) :
              CurrentScore(g, initial[1].statisticsProvider, e) # m.score

\* C4: every mergeUntil returns, and the engine returns only with an empty
\* queue or with every live edge's current score above the threshold.
C4_Termination ==
    /\ (pc = "merging") ~> (pc = "idle")
    /\ [](pc = "merged" =>
            \/ Ctx.regionMerging.queue = {}
            \/ /\ LiveEdges(Ctx.regionGraph) # {}
               /\ \A e \in LiveEdges(Ctx.regionGraph) :
                     CurrentScore(Ctx.regionGraph, Ctx.statisticsProvider, e)
                         > threshold)

\* The engine returned with work left, after a merge and after a refused
\* edge (deleted with its ends still in different regions).
C4_Witness ==
    /\ pc = "merged" /\ merged > 0
    /\ Ctx.regionMerging.queue # {}
    /\ \E e \in Ctx.regionGraph.deleted :
          RootOf(Ctx.regionGraph.edges[e].u) # RootOf(Ctx.regionGraph.edges[e].v)

Ids == 0 .. NumNodes

\* C5: for a tracker built from a non-empty list, isValidMerge(a, b) is
\* false exactly when some current group of a has some current group of b
\* in its anti list.
C5_IsValidMergeIff ==
    unmergeTracker # NULL =>
        LET t == unmergeTracker[1]
        IN  \A a, b \in Ids :
              (UnmergeTracker_isValidMerge(t, a, b) = FALSE) <=>
                 \E g \in SeqRange(MapAt(t.segid_to_groupid_list, a)),
                    h \in SeqRange(MapAt(t.segid_to_groupid_list, b)) :
                      h \in SeqRange(MapAt(t.groupid_to_anti_list, g))

\* After a merge, a pair is refused because of a group that is not the
\* first of a's group list.
C5_Witness ==
    /\ unmergeTracker # NULL /\ merged > 0
    /\ LET t == unmergeTracker[1]
       IN  \E a, b \in Ids :
              /\ Len(MapAt(t.segid_to_groupid_list, a)) >= 2
              /\ ~ UnmergeTracker_isValidMerge(t, a, b)
              /\ LET g1 == t.segid_to_groupid_list[a][1]
                 IN  \A h \in SeqRange(MapAt(t.segid_to_groupid_list, b)) :
                        h \notin SeqRange(MapAt(t.groupid_to_anti_list, g1))

\* C6: onMerge(a, b, c) gives c the group list of a followed by that of b,
\* changes no other group list and no anti list, and creates no entry for c
\* when a and b have no groups.
C6_OnMergeFrame ==
    [][(pc = "merging" /\ merged' = merged + 1 /\ unmergeTracker # NULL) =>
          LET m  == Last(mergeHistory')
              t  == unmergeTracker[1]
              t2 == unmergeTracker'[1]
              ga == MapAt(t.segid_to_groupid_list, m.a)
              gb == MapAt(t.segid_to_groupid_list, m.b)
          IN  /\ m.c \in {m.a, m.b}
              /\ t2.groupid_to_anti_list = t.groupid_to_anti_list
              /\ t2.is_empty = t.is_empty
              /\ IF ga \o gb = << >>
                 THEN t2.segid_to_groupid_list = t.segid_to_groupid_list
                 ELSE /\ DOMAIN t2.segid_to_groupid_list =
                            (DOMAIN t.segid_to_groupid_list) \cup {m.c}
                      /\ t2.segid_to_groupid_list[m.c] = ga \o gb
                      /\ \A k \in (DOMAIN t.segid_to_groupid_list) \ {m.c} :
                            t2.segid_to_groupid_list[k] =
                                t.segid_to_groupid_list[k]]_vars

\* A merge of two regions that both carried groups.
C6_Witness ==
    /\ pc = "merging" /\ unmergeTracker # NULL /\ Len(mergeHistory) >= 1
    /\ LET m == Last(mergeHistory)
           t == unmergeTracker[1]
       IN  /\ Len(MapAt(t.segid_to_groupid_list, m.c)) >= 2
           /\ m.b \in DOMAIN t.segid_to_groupid_list

\* The popped entry is a live edge at its current score within the threshold.
Mergeable(context) ==
    /\ context.regionMerging.queue # {}
    /\ LET top == Best(context.regionMerging.queue)
       IN  /\ top[2] \notin context.regionGraph.deleted
           /\ CurrentScore(context.regionGraph, context.statisticsProvider,
                           top[2]) = top[1]
           /\ top[1] <= threshold

\* C7: with an empty unmerge list no tracker is attached, the tracker of an
\* empty list accepts every pair and ignores onMerge, and the run refuses no
\* merge: every live, current edge within the threshold is merged.
C7_EmptyListUnconstrained ==
    /\ []((HasContext /\ Ctx.unmergeList = << >>) =>
            /\ unmergeTracker = NULL
            /\ LET t == UnmergeTracker(Ctx.unmergeList)
               IN  \A a, b \in Ids :
                     /\ UnmergeTracker_isValidMerge(t, a, b)
                     /\ UnmergeTracker_onMerge(t, a, b, a) = t)
    /\ [][(pc = "merging" /\ Ctx.unmergeList = << >> /\ Mergeable(Ctx)) =>
             /\ merged' = merged + 1
             /\ Len(mergeHistory') = Len(mergeHistory) + 1]_vars

\* A merge made on a handle with an empty unmerge list.
C7_Witness ==
    /\ pc = "merging" /\ merged > 0
    /\ Ctx.unmergeList = << >>

\* C8: initialize called without an unmerge list (NULL) completes, returns
\* a handle, and the context holds an empty unmerge list.
C8_InitializeWithoutList ==
    [][(pc = "initializing" /\ initArg = << NULL >>) =>
          /\ pc' = "idle"
          /\ state' # NULL
          /\ state'[1] \in DOMAIN contexts'
          /\ contexts'[state'[1]].unmergeList = << >>]_vars

Dead(context) == {n \in Nodes : context.regionMerging.parent[n] # n}

DeadNow == IF state = NULL THEN {} ELSE Dead(contexts[state[1]])

\* C9: the history of a call starts empty, grows by exactly the entry
\* (a, b, survivor, score) of each merge, in order, changes at no other
\* step, has the length of the engine's merge count, and is what is returned.
C9_HistoryExact ==
    [][/\ (pc = "idle" /\ pc' = "merging") => mergeHistory' = << >>
       /\ pc = "merging" =>
            IF DeadNow' # DeadNow
            THEN \E l \in DeadNow' \ DeadNow :
                    /\ DeadNow' = DeadNow \cup {l}
                    /\ LET c == contexts'[state[1]].regionMerging.parent[l]
                           e == Best(Ctx.regionMerging.queue)[2]
                       IN  /\ Len(mergeHistory') = Len(mergeHistory) + 1
                           /\ SubSeq(mergeHistory', 1, Len(mergeHistory))
                                 = mergeHistory
                           /\ {Last(mergeHistory').a, Last(mergeHistory').b}
                                 = {l, c}
                           /\ Last(mergeHistory').c = c
                           /\ Last(mergeHistory').score =
                                 CurrentScore(Ctx.regionGraph,
                                              Ctx.statisticsProvider, e)
            ELSE mergeHistory' = mergeHistory
       /\ pc = "merged" =>
            /\ mergeHistory' = mergeHistory
            /\ calls' = Append(calls, [threshold |-> threshold,
                                       history   |-> mergeHistory])
       /\ Len(mergeHistory') = merged']_vars

\* A resumed call that merges after an earlier call merged.
C9_Witness ==
    /\ pc = "merging" /\ CallsDone = 1
    /\ Len(calls[1].history) >= 1 /\ Len(mergeHistory) >= 1

\* C10: every history entry (a, b, c, score) has c = min(a, b).
C10_SurvivorIsSmaller ==
    \A i \in 1 .. Len(mergeHistory) :
        /\ mergeHistory[i].c = Min(mergeHistory[i].a, mergeHistory[i].b)
        /\ mergeHistory[i].c \in {mergeHistory[i].a, mergeHistory[i].b}

\* Two merges in one call, the second into a region that already absorbed one.
C10_Witness ==
    /\ Len(mergeHistory) >= 2
    /\ mergeHistory[2].c = mergeHistory[1].c

\* The node reached from n by following k parent links.
RECURSIVE Chase(_, _, _)
Chase(parent, n, k) == IF k = 0 THEN n ELSE Chase(parent, parent[n], k - 1)

\* C11: in every state the parent links of the handle's regions form a
\* forest: every seed reaches a node that is its own parent within NumNodes
\* links; the ends of every live edge are such roots; between calls the
\* segmentation labels every seed with its root; and a seed that has been
\* absorbed stays absorbed.
C11_LabelStability ==
    /\ [](HasContext =>
            LET parent == Ctx.regionMerging.parent
                g      == Ctx.regionGraph
            IN  /\ \A n \in Nodes :
                      LET r == Chase(parent, n, NumNodes)
                      IN  parent[r] = r
                /\ \A e \in LiveEdges(g) :
                      /\ parent[g.edges[e].u] = g.edges[e].u
                      /\ parent[g.edges[e].v] = g.edges[e].v
                /\ pc = "idle" =>
                      \A n \in Nodes :
                         Ctx.segmentation[n] = Chase(parent, n, NumNodes))
    /\ [][DeadNow \subseteq DeadNow']_vars

\* A call returned after a seed was absorbed by a region that was absorbed
\* in turn: its parent link does not lead to the root in one step.
C11_Witness ==
    /\ pc = "idle" /\ HasContext
    /\ \E n \in Nodes :
          LET parent == Ctx.regionMerging.parent
          IN  /\ parent[n] # n
              /\ parent[parent[n]] # parent[n]
              /\ Ctx.segmentation[n] = RootOf(n)

\* One mergeUntil(t) on `context`, from the inputs alone: the context it
\* leaves and the history it returns.
CallOnce(context, t) ==
    LET r == RunMergeUntil(
                 [regionGraph   |-> context.regionGraph,
                  regionMerging |-> context.regionMerging,
                  provider      |-> context.statisticsProvider,
                  visitor       |-> [history |-> NewMergeHistory(<< >>),
                                     unmergeTracker |-> NewUnmergeTracker(context)],
                  merged        |-> 0,
                  returned      |-> FALSE], t)
    IN  [context |-> [context EXCEPT
                        !.regionGraph   = r.regionGraph,
                        !.regionMerging = r.regionMerging,
                        !.segmentation  =
                            IF r.merged > 0
                            THEN extractSegmentation(r.regionMerging.parent, @)
                            ELSE @],
         history |-> r.visitor.history]

\* A second run of the calls cs[i..] from `context` returns the histories
\* recorded in cs and ends in the context `final`.
RECURSIVE Replayed(_, _, _, _)
Replayed(context, cs, i, final) ==
    IF i > Len(cs) THEN context = final
    ELSE LET once == CallOnce(context, cs[i].threshold)
         IN  /\ once.history = cs[i].history
             /\ Replayed(once.context, cs, i + 1, final)

PairedIn(L, g, h) ==
    \E i \in 1 .. Len(L) :
        \E j, k \in 1 .. Len(L[i]) :
            j # k /\ L[i][j][1] = g /\ L[i][k][1] = h

\* C13: in a tracker built from the list L, h is in the anti list of g
\* exactly when g # h and some tuple of L pairs a group with id g with
\* another group with id h; the relation is symmetric and irreflexive, and
\* every group id on a seed's group list has an entry in the anti map.
C13_AntiRelation ==
    (unmergeTracker # NULL /\ HasContext) =>
        LET t       == unmergeTracker[1]
            L       == Ctx.unmergeList
            Anti(g) == SeqRange(MapAt(t.groupid_to_anti_list, g))
        IN  /\ \A g, h \in Ids :
                  h \in Anti(g) <=> (g # h /\ PairedIn(L, g, h))
            /\ \A g, h \in Ids : h \in Anti(g) => g \in Anti(h)
            /\ \A g \in Ids : g \notin Anti(g)
            /\ \A s \in DOMAIN t.segid_to_groupid_list :
                  \A g \in SeqRange(t.segid_to_groupid_list[s]) :
                      g \in DOMAIN t.groupid_to_anti_list

\* A tracker in which one group has two partners and a merge was recorded.
C13_Witness ==
    /\ unmergeTracker # NULL /\ HasContext /\ pc = "merging" /\ merged > 0
    /\ \E g \in DOMAIN unmergeTracker[1].groupid_to_anti_list :
          Cardinality(SeqRange(unmergeTracker[1].groupid_to_anti_list[g])) >= 2

\* The group ids the tracker t holds for the seed or region s.
GroupsOf(t, s) == SeqRange(MapAt(t.segid_to_groupid_list, s))

\* C14: during every mergeUntil call on a handle with a non-empty unmerge
\* list, resumed calls included, the tracker's group list of each live root
\* r is, as a set, the union of the initial group lists of the seeds that
\* resolve to r.
C14_TrackerAccumulation ==
    (pc \in {"merging", "merged"} /\ HasContext /\ unmergeTracker # NULL) =>
        LET t    == unmergeTracker[1]
            t0   == UnmergeTracker(Ctx.unmergeList)
        IN  \A r \in Nodes :
              RootOf(r) = r =>
                 GroupsOf(t, r) =
                    UNION {GroupsOf(t0, s) : s \in {x \in Nodes : RootOf(x) = r}}

\* C15: while one tracker serves a call, a merge gives the survivor a group
\* list that holds its old list and the loser's, no group list loses an
\* entry, and a pair of live roots that isValidMerge refuses is still
\* refused, as the pair of the roots the two have been merged into, after
\* the step.
C15_RejectionPermanent ==
    [][(pc = "merging" /\ unmergeTracker # NULL /\ unmergeTracker' # NULL) =>
          LET t       == unmergeTracker[1]
              t2      == unmergeTracker'[1]
              parent2 == contexts'[state[1]].regionMerging.parent
          IN  /\ \A s \in Ids : GroupsOf(t, s) \subseteq GroupsOf(t2, s)
              /\ merged' = merged + 1 =>
                    LET m == Last(mergeHistory')
                    IN  GroupsOf(t, m.a) \cup GroupsOf(t, m.b)
                            \subseteq GroupsOf(t2, m.c)
              /\ \A a, b \in {n \in Nodes : RootOf(n) = n} :
                    ~ UnmergeTracker_isValidMerge(t, a, b) =>
                        ~ UnmergeTracker_isValidMerge(t2, findRoot(parent2, a),
                                                          findRoot(parent2, b))]_vars

\* A pair of live roots is refused only because of a group one of them
\* took over in a merge: a tracker fresh from the list would accept it.
C15_Witness ==
    /\ pc = "merging" /\ HasContext /\ unmergeTracker # NULL /\ merged > 0
    /\ \E a, b \in Nodes :
          /\ RootOf(a) = a /\ RootOf(b) = b /\ a # b
          /\ ~ UnmergeTracker_isValidMerge(unmergeTracker[1], a, b)
          /\ UnmergeTracker_isValidMerge(UnmergeTracker(Ctx.unmergeList), a, b)

\* C16: in every tracker state, isValidMerge(a, b) = isValidMerge(b, a) for
\* all ids a and b, and the call leaves both maps of the tracker as they
\* were.
C16_IsValidMergeSymmetricReadOnly ==
    unmergeTracker # NULL =>
        LET t == unmergeTracker[1]
        IN  \A a, b \in Ids :
              /\ UnmergeTracker_isValidMerge(t, a, b)
                    = UnmergeTracker_isValidMerge(t, b, a)
              /\ UnmergeTracker_isValidMerge_After(t, a, b) = t

\* After a merge, a refused pair whose group lists differ in length, with
\* an id about which the tracker holds nothing.
C16_Witness ==
    /\ unmergeTracker # NULL /\ merged > 0
    /\ LET t == unmergeTracker[1]
       IN  /\ \E a, b \in Ids :
                /\ ~ UnmergeTracker_isValidMerge(t, a, b)
                /\ Len(MapAt(t.segid_to_groupid_list, a))
                      > Len(MapAt(t.segid_to_groupid_list, b))
           /\ \E s \in Ids : s \notin DOMAIN t.segid_to_groupid_list

\* C17: the registry maps every id it holds to a context with that id,
\* every id it holds was given out below _nextId, _nextId never decreases,
\* and an initialize that returns registers and returns the id _nextId,
\* which the registry does not hold, and advances _nextId by one: the id
\* differs from every id given out before, freed or not.
C17_HandleUniqueness ==
    /\ [](/\ \A k \in DOMAIN contexts : contexts[k].id = k
          /\ DOMAIN contexts \subseteq 0 .. nextId - 1)
    /\ [][/\ nextId' >= nextId
          /\ (pc = "initializing" /\ pc' = "idle") =>
                /\ nextId \notin DOMAIN contexts
                /\ DOMAIN contexts' = DOMAIN contexts \cup {nextId}
                /\ contexts'[nextId].id = nextId
                /\ state' = << nextId >>
                /\ nextId' = nextId + 1
          /\ ~ (pc = "initializing" /\ pc' = "idle") => nextId' = nextId]_vars

\* A second context was created after the first was freed.
C17_Witness ==
    /\ nextId = 2 /\ pc = "idle"
    /\ DOMAIN contexts = {1}
    /\ state = << 1 >>

\* C18: free(handle) removes the context of that handle and no other, get
\* on that id then returns NULL, every other context stays registered and
\* unchanged, nothing else changes, and free on an id the registry does not
\* hold changes nothing.
C18_FreeFrame ==
    [][free =>
          LET id == state[1]
          IN  /\ DOMAIN contexts' = DOMAIN contexts \ {id}
              /\ \A k \in DOMAIN contexts' : contexts'[k] = contexts[k]
              /\ get(id)' = NULL
              /\ id \notin DOMAIN contexts => contexts' = contexts
              /\ UNCHANGED << nextId, state, pc, threshold, mergeHistory,
                              unmergeTracker, merged, initArg, initial,
                              calls >>]_vars

\* One of two registered contexts was freed; the other is still held.
C18_Witness ==
    /\ nextId = 2 /\ pc = "idle"
    /\ Cardinality(DOMAIN contexts) = 1
    /\ state # NULL /\ get(state[1]) = NULL
    /\ state[1] < nextId

\* C19: a mergeUntil or getRegionGraph call made with a handle the registry
\* does not hold is turned down: NULL is not dereferenced and nothing
\* changes.
C19_NoMissingContextUse ==
    [][(mergeUntil_NoContext \/ (getRegionGraph /\ get(state[1]) = NULL)) =>
          /\ pc' # "crashed"
          /\ UNCHANGED vars]_vars

=============================================================================
